---- MODULE Spec2Model ----
(***************************************************************************)
(* Key lifecycle and versioned audit engine of crypto_inventory.            *)
(*                                                                         *)
(* The two tables of the store (key_types, crypto_keys) are sequences of   *)
(* rows whose index is the integer primary key.  Every crud operation is   *)
(* one action; its return value or HTTP error is recorded in `last`.       *)
(* Serialisation of the returned rows (pydantic model_validate) and the    *)
(* HTTP routing are not modelled.                                           *)
(***************************************************************************)
EXTENDS Integers, Sequences, FiniteSets, TLC

VARIABLES key_types, crypto_keys, now, last, session, sweeper

vars == <<key_types, crypto_keys, now, last, session, sweeper>>

----------------------------------------------------------------------------
(* Bounds of the model *)

MaxKeys == 2
MaxRows == 3
MaxTime == 1

----------------------------------------------------------------------------
(* models.py *)

ACTIVE == "Active"
EXPIRED == "Expired"
COMPROMISED == "Compromised"
SUSPENDED == "Suspended"
DESTROYED == "Destroyed"

KeyStatus == {ACTIVE, EXPIRED, COMPROMISED, SUSPENDED, DESTROYED}

KT_ACTIVE == "Active"
KT_DISABLED == "Disabled"

KeyTypeStatus == {KT_ACTIVE, KT_DISABLED}

ALLOWED_TRANSITIONS ==
    [s \in KeyStatus |->
        CASE s = ACTIVE      -> {SUSPENDED, COMPROMISED, EXPIRED}
          [] s = SUSPENDED   -> {ACTIVE, EXPIRED, DESTROYED}
          [] s = COMPROMISED -> {DESTROYED}
          [] s = EXPIRED     -> {DESTROYED}
          [] s = DESTROYED   -> {}]

(* A column value that was never assigned and has no default. *)
NULL == "NULL"

(* ulid.new(): the default of KeyType.key_id and of CryptoKey.key_id.  A   *)
(* fresh identifier for every inserted row; rows are never deleted, so the *)
(* row count numbers them.  Key types and keys draw from disjoint ranges.  *)
KeyTypeUlidBase == 100
KeyUlidBase == 200

NewKeyTypeUlid(rows) == KeyTypeUlidBase + Len(rows) + 1

NewKeyUlid(rows) == KeyUlidBase + Len(rows) + 1

(* NOT NULL and UNIQUE constraints of the crypto_keys table, checked when  *)
(* the row is flushed: key_id is unique, justification is not nullable.    *)
CryptoKeyIntegrity_Nullable(rows, row) ==
    \A i \in 1..Len(rows) : rows[i].key_id # row.key_id

CryptoKeyIntegrity(rows, row) ==
    /\ row.justification # NULL
    /\ \A i \in 1..Len(rows) : rows[i].key_id # row.key_id

(* UNIQUE constraints of the key_types table: key_id and name. *)
KeyTypeIntegrity(rows, row) ==
    \A i \in 1..Len(rows) :
        /\ rows[i].key_id # row.key_id
        /\ rows[i].name # row.name

----------------------------------------------------------------------------
(* utils.py *)

DAYS_IN_MONTH == 30
DAYS_IN_YEAR == 365

Units == {"d", "m", "y"}

(* A cryptoperiod token "<n><unit>" as the pair the regular expression     *)
(* (\d+)([dmy]) splits it into.                                             *)
parse_cryptoperiod(token) ==
    CASE token.unit = "d" -> token.value
      [] token.unit = "m" -> token.value * DAYS_IN_MONTH
      [] token.unit = "y" -> token.value * DAYS_IN_YEAR

format_cryptoperiod_MonthsFirst(days) ==
    IF days >= DAYS_IN_MONTH /\ days % DAYS_IN_MONTH = 0
    THEN [value |-> days \div DAYS_IN_MONTH, unit |-> "m"]
    ELSE IF days >= DAYS_IN_YEAR /\ days % DAYS_IN_YEAR = 0
         THEN [value |-> days \div DAYS_IN_YEAR, unit |-> "y"]
         ELSE [value |-> days, unit |-> "d"]

format_cryptoperiod_Truncating(days) ==
    IF days >= DAYS_IN_YEAR
    THEN [value |-> days \div DAYS_IN_YEAR, unit |-> "y"]
    ELSE IF days >= DAYS_IN_MONTH
         THEN [value |-> days \div DAYS_IN_MONTH, unit |-> "m"]
         ELSE [value |-> days, unit |-> "d"]

format_cryptoperiod(days) ==
    IF days >= DAYS_IN_YEAR /\ days % DAYS_IN_YEAR = 0
    THEN [value |-> days \div DAYS_IN_YEAR, unit |-> "y"]
    ELSE IF days >= DAYS_IN_MONTH /\ days % DAYS_IN_MONTH = 0
         THEN [value |-> days \div DAYS_IN_MONTH, unit |-> "m"]
         ELSE [value |-> days, unit |-> "d"]

(* validate_cryptoperiod_days: raises ValueError when days > MAX_DAYS. *)
MAX_DAYS == 365 * 100

validate_cryptoperiod_days_Exclusive(days) == days < MAX_DAYS

validate_cryptoperiod_days(days) == ~(days > MAX_DAYS)

(* Strings are sequences of one-character strings. *)
DigitChars == <<"0", "1", "2", "3", "4", "5", "6", "7", "8", "9">>

IsDigit(c) == \E d \in 1..Len(DigitChars) : DigitChars[d] = c

DigitValue(c) == (CHOOSE d \in 1..Len(DigitChars) : DigitChars[d] = c) - 1

Whitespace == {" "}

(* str.strip(): without the leading and the trailing whitespace. *)
strip(s) ==
    LET inner == {i \in 1..Len(s) : s[i] \notin Whitespace}
    IN  IF inner = {}
        THEN << >>
        ELSE SubSeq(s, CHOOSE a \in inner : \A i \in inner : a <= i,
                       CHOOSE b \in inner : \A i \in inner : i <= b)

(* str.lower(), on the letters that matter to the pattern. *)
lower(s) ==
    [i \in 1..Len(s) |->
        CASE s[i] = "D" -> "d"
          [] s[i] = "M" -> "m"
          [] s[i] = "Y" -> "y"
          [] OTHER      -> s[i]]

(* int(value) of a string of decimal digits. *)
RECURSIVE int(_)
int(digits) ==
    IF digits = << >>
    THEN 0
    ELSE int(SubSeq(digits, 1, Len(digits) - 1)) * 10 + DigitValue(digits[Len(digits)])

(* str(n) of a natural number, as the f-strings of format_cryptoperiod     *)
(* render it.                                                              *)
RECURSIVE str(_)
str(n) ==
    IF n < 10
    THEN <<DigitChars[n + 1]>>
    ELSE str(n \div 10) \o <<DigitChars[(n % 10) + 1]>>

(* The length of the longest prefix of s made of digits: what \d+ takes. *)
DigitPrefix(s) ==
    CHOOSE k \in 0..Len(s) :
        /\ \A i \in 1..k : IsDigit(s[i])
        /\ k < Len(s) => ~IsDigit(s[k + 1])

NoMatch == [value |-> 0, unit |-> "none"]

(* re.match(r"(\d+)([dmy])", s) and match.groups(), value already int():   *)
(* the pattern is matched at the start of s and what follows the unit      *)
(* letter is not looked at.                                                *)
re_match(s) ==
    LET k == DigitPrefix(s)
    IN  IF k >= 1 /\ Len(s) > k /\ s[k + 1] \in Units
        THEN [value |-> int(SubSeq(s, 1, k)), unit |-> s[k + 1]]
        ELSE NoMatch

(* What a function call gives: the value returned or the error raised. *)
Returned(value) == [raised |-> "", value |-> value]

Raised(error) == [raised |-> error, value |-> 0]

VALUE_ERROR == "ValueError"

(* parse_cryptoperiod on the string it is given. *)
parse_cryptoperiod_str(period_str) ==
    LET match == re_match(lower(strip(period_str)))
    IN  IF match = NoMatch
        THEN Raised(VALUE_ERROR)
        ELSE Returned(parse_cryptoperiod(match))

(* format_cryptoperiod with its result as the string. *)
format_cryptoperiod_str(days) ==
    LET token == format_cryptoperiod(days)
    IN  str(token.value) \o <<token.unit>>

----------------------------------------------------------------------------
(* Inputs *)

Names == {"LMK", "ZMK"}

Tokens == {[value |-> 1, unit |-> "d"]}

Justifications == {"", "reason"}

Purposes == {"purpose"}

NoDate == -1

ActivationDates == {NoDate}

KeyTypeIds == 1..Cardinality(Names)

KeyTypeUlids == {KeyTypeUlidBase + i : i \in KeyTypeIds}

KeyUlids == {KeyUlidBase + i : i \in 1..MaxKeys}

(* Outcomes of an operation: the HTTP error it raises, or success. *)
OK == "Ok"
NOT_FOUND == "NotFound"
ILLEGAL_TRANSITION == "IllegalTransition"
MISSING_JUSTIFICATION == "MissingJustification"
HAS_DEPENDENT_KEYS == "HasDependentKeys"
PERSISTENCE_FAILURE == "PersistenceFailure"

(* The commit of a handler at which the store raises SQLAlchemyError. *)
NO_FAULT == "none"
FIRST_COMMIT == "first commit"
SECOND_COMMIT == "second commit"

StoreFaults == {NO_FAULT, FIRST_COMMIT, SECOND_COMMIT}

Result(op, id, status, justification, force, outcome, row) ==
    [op |-> op, id |-> id, status |-> status, justification |-> justification,
     force |-> force, outcome |-> outcome, row |-> row, fault |-> NO_FAULT]

(* Concurrent callers of update_key_status, each with its own Session.     *)
Users == {"u1", "u2"}

(* A Session between its query and its commit holds the objects it loaded: *)
(* for update_key_status the arguments and the loaded original_key, for    *)
(* check_and_expire_keys the primary keys of the loaded keys_to_expire.    *)
IdleSession ==
    [pc |-> "idle", key_id |-> 0, new_status |-> "-", justification |-> "",
     original_key |-> {}]

IdleSweeper == [pc |-> "idle", keys |-> {}]

----------------------------------------------------------------------------
(* crud.py *)

Ids(rows) == 1..Len(rows)

(* db.query(KeyType).filter(KeyType.key_id == key_type_id,                  *)
(*                          KeyType.status == KeyTypeStatus.ACTIVE)         *)
ActiveKeyTypeIds_AnyStatus(key_type_id) ==
    {i \in Ids(key_types) : key_types[i].key_id = key_type_id}

ActiveKeyTypeIds(key_type_id) ==
    {i \in Ids(key_types) :
        key_types[i].key_id = key_type_id /\ key_types[i].status = KT_ACTIVE}

(* key_type.status = KeyTypeStatus.DISABLED *)
DisableKeyType_StaysActive(rows, kt) == rows

DisableKeyType_ReactivatesOthers(rows, kt) ==
    [i \in Ids(rows) |->
        [rows[i] EXCEPT !.status = IF i = kt THEN KT_DISABLED ELSE KT_ACTIVE]]

DisableKeyType(rows, kt) == [rows EXCEPT ![kt].status = KT_DISABLED]

(* db.query(CryptoKey).filter(CryptoKey.key_type_id == key_type.id,         *)
(*                            CryptoKey.status != KeyStatus.DESTROYED)      *)
AssociatedKeys_OnlyActive(rows, kt) ==
    {i \in Ids(rows) : rows[i].key_type_id = kt /\ rows[i].status = ACTIVE}

AssociatedKeys(rows, kt) ==
    {i \in Ids(rows) : rows[i].key_type_id = kt /\ rows[i].status # DESTROYED}

associated_keys_count(rows, kt) == Cardinality(AssociatedKeys(rows, kt))

(* db.query(CryptoKey).filter(CryptoKey.key_type_id == key_type.id)         *)
(*   .update({"status": KeyStatus.DESTROYED})                               *)
CascadeUpdate_Deletes(rows, kt) ==
    SelectSeq(rows, LAMBDA row : row.key_type_id # kt)

CascadeUpdate_AllKeyTypes(rows, kt) ==
    [i \in Ids(rows) |-> [rows[i] EXCEPT !.status = DESTROYED]]

CascadeUpdate(rows, kt) ==
    [i \in Ids(rows) |->
        IF rows[i].key_type_id = kt
        THEN [rows[i] EXCEPT !.status = DESTROYED]
        ELSE rows[i]]

(* The rows that create_crypto_key inserted: the first row of each key. *)
IssuedKeys(rows) == Cardinality({i \in Ids(rows) : rows[i].derived_from = 0})

(* db.query(CryptoKey).filter(CryptoKey.key_id == key_id) *)
RowsOfKey(rows, key_id) == {i \in Ids(rows) : rows[i].key_id = key_id}

(* .order_by(CryptoKey.timestamp.desc()).first(): a row of the key with    *)
(* the greatest timestamp; the store breaks ties as it likes.              *)
LatestRows(rows, key_id) ==
    {i \in RowsOfKey(rows, key_id) :
        \A j \in RowsOfKey(rows, key_id) : rows[j].timestamp <= rows[i].timestamp}

(* get_key_history: the rows of the key ordered by timestamp; every order  *)
(* the store may return (rows of equal timestamp come in any order).       *)
get_key_history_AllRows(rows, key_id) ==
    LET S == Ids(rows)
        n == Cardinality(S)
    IN  {h \in [1..n -> S] :
            /\ \A a, b \in 1..n : a # b => h[a] # h[b]
            /\ \A a, b \in 1..n : a < b => rows[h[a]].timestamp <= rows[h[b]].timestamp}

get_key_history(rows, key_id) ==
    LET S == RowsOfKey(rows, key_id)
        n == Cardinality(S)
    IN  {h \in [1..n -> S] :
            /\ \A a, b \in 1..n : a # b => h[a] # h[b]
            /\ \A a, b \in 1..n : a < b => rows[h[a]].timestamp <= rows[h[b]].timestamp}

is_transition_valid_Swapped(current_status, new_status) ==
    current_status \in ALLOWED_TRANSITIONS[new_status]

is_transition_valid(current_status, new_status) ==
    new_status \in ALLOWED_TRANSITIONS[current_status]

(* The row create_key_version builds from original_key: key_id and         *)
(* justification are not passed, so key_id takes its default (a new ulid)  *)
(* and justification stays unset.  id is the autoincrement primary key;    *)
(* derived_from is a history field (no column of the table) that records   *)
(* the row the version was copied from, 0 for the first row of a key.      *)
NewKeyVersion(rows, original_key, new_status) ==
    [id                |-> Len(rows) + 1,
     derived_from      |-> original_key.id,
     key_id            |-> NewKeyUlid(rows),
     key_type_id       |-> original_key.key_type_id,
     usage_purpose     |-> original_key.usage_purpose,
     intended_lifetime |-> original_key.intended_lifetime,
     status            |-> new_status,
     expiration_date   |-> original_key.expiration_date,
     activation_date   |-> original_key.activation_date,
     justification     |-> NULL,
     timestamp         |-> now]

(* The creation timestamp a row gets when the insert does not pass one:   *)
(* the column default of CryptoKey.timestamp, the time of the insert.      *)
TimestampDefault == now

NewCryptoKey_ExpiresFromNow(rows, key_type_id, cryptoperiod_days, activation_date, usage_purpose) ==
    LET activation == IF activation_date = NoDate THEN now ELSE activation_date
    IN  [id                |-> Len(rows) + 1,
         derived_from      |-> 0,
         key_id            |-> NewKeyUlid(rows),
         key_type_id       |-> key_type_id,
         usage_purpose     |-> usage_purpose,
         intended_lifetime |-> format_cryptoperiod(cryptoperiod_days),
         status            |-> ACTIVE,
         expiration_date   |-> now + cryptoperiod_days,
         activation_date   |-> activation,
         justification     |-> usage_purpose,
         timestamp         |-> TimestampDefault]

(* The row create_crypto_key builds. *)
NewCryptoKey(rows, key_type_id, cryptoperiod_days, activation_date, usage_purpose) ==
    LET activation == IF activation_date = NoDate THEN now ELSE activation_date
    IN  [id                |-> Len(rows) + 1,
         derived_from      |-> 0,
         key_id            |-> NewKeyUlid(rows),
         key_type_id       |-> key_type_id,
         usage_purpose     |-> usage_purpose,
         intended_lifetime |-> format_cryptoperiod(cryptoperiod_days),
         status            |-> ACTIVE,
         expiration_date   |-> activation + cryptoperiod_days,
         activation_date   |-> activation,
         justification     |-> usage_purpose,
         timestamp         |-> TimestampDefault]

EXPIRED_JUSTIFICATION == "Automatically expired due to expiration date"

keys_to_expire_AnyStatus(rows) ==
    {i \in Ids(rows) : rows[i].expiration_date <= now}

(* The rows check_and_expire_keys selects. *)
keys_to_expire(rows) ==
    {i \in Ids(rows) :
        /\ rows[i].status \in {ACTIVE, SUSPENDED}
        /\ rows[i].expiration_date <= now}

(* The loop over the selected rows and the commit: each selected row is    *)
(* updated by primary key.                                                 *)
ExpireUpdate_ResetsExpiration(rows, keys) ==
    [i \in Ids(rows) |->
        IF i \in keys
        THEN [rows[i] EXCEPT !.status = EXPIRED,
                             !.justification = EXPIRED_JUSTIFICATION,
                             !.expiration_date = rows[i].activation_date]
        ELSE rows[i]]

ExpireUpdate_AppendsVersion(rows, keys) ==
    IF keys = {}
    THEN rows
    ELSE LET i == CHOOSE k \in keys : \A m \in keys : k <= m
         IN  Append(rows, [rows[i] EXCEPT !.id = Len(rows) + 1,
                                          !.derived_from = rows[i].id,
                                          !.status = EXPIRED,
                                          !.justification = EXPIRED_JUSTIFICATION])

ExpireUpdate(rows, keys) ==
    [i \in Ids(rows) |->
        IF i \in keys
        THEN [rows[i] EXCEPT !.status = EXPIRED,
                             !.justification = EXPIRED_JUSTIFICATION]
        ELSE rows[i]]

(* db.rollback(): the table as of the last commit; what the session had   *)
(* pending since then is discarded.                                        *)
rollback_KeepsPending(committed, pending) == pending

rollback(committed, pending) == committed

----------------------------------------------------------------------------
(* Operations *)

Init ==
    /\ key_types = << >>
    /\ crypto_keys = << >>
    /\ now = 0
    /\ last = Result("init", 0, "-", "", FALSE, OK, 0)
    /\ session = [u \in Users |-> IdleSession]
    /\ sweeper = IdleSweeper

create_key_type(name, token) ==
    LET row == [key_id            |-> NewKeyTypeUlid(key_types),
                name              |-> name,
                cryptoperiod_days |-> parse_cryptoperiod(token),
                status            |-> KT_ACTIVE]
    IN  IF KeyTypeIntegrity(key_types, row)
        THEN /\ key_types' = Append(key_types, row)
             /\ last' = Result("create_key_type", row.key_id, "-", "", FALSE, OK,
                               Len(key_types) + 1)
             /\ UNCHANGED <<crypto_keys, now>>
        ELSE /\ last' = Result("create_key_type", 0, "-", "", FALSE,
                               PERSISTENCE_FAILURE, 0)
             /\ UNCHANGED <<key_types, crypto_keys, now>>

delete_key_type(key_type_id, force) ==
    IF ActiveKeyTypeIds(key_type_id) = {}
    THEN /\ last' = Result("delete_key_type", key_type_id, "-", "", force, NOT_FOUND, 0)
         /\ UNCHANGED <<key_types, crypto_keys, now>>
    ELSE LET kt == CHOOSE i \in ActiveKeyTypeIds(key_type_id) : TRUE
         IN  IF associated_keys_count(crypto_keys, kt) > 0
             THEN IF ~force
                  THEN /\ last' = Result("delete_key_type", key_type_id, "-", "", force,
                                         HAS_DEPENDENT_KEYS, 0)
                       /\ UNCHANGED <<key_types, crypto_keys, now>>
                  ELSE /\ key_types' = DisableKeyType(key_types, kt)
                       /\ crypto_keys' = CascadeUpdate(crypto_keys, kt)
                       /\ last' = Result("delete_key_type", key_type_id, "-", "", force,
                                         OK, kt)
                       /\ UNCHANGED now
             ELSE /\ key_types' = DisableKeyType(key_types, kt)
                  /\ last' = Result("delete_key_type", key_type_id, "-", "", force, OK, kt)
                  /\ UNCHANGED <<crypto_keys, now>>

create_crypto_key(key_type_id, activation_date, usage_purpose) ==
    IF key_type_id \notin Ids(key_types)
    THEN /\ last' = Result("create_crypto_key", key_type_id, "-", usage_purpose, FALSE,
                           NOT_FOUND, 0)
         /\ UNCHANGED <<key_types, crypto_keys, now>>
    ELSE LET row == NewCryptoKey(crypto_keys, key_type_id,
                                 key_types[key_type_id].cryptoperiod_days,
                                 activation_date, usage_purpose)
         IN  IF CryptoKeyIntegrity(crypto_keys, row)
             THEN /\ IssuedKeys(crypto_keys) < MaxKeys
                  /\ Len(crypto_keys) < MaxRows
                  /\ crypto_keys' = Append(crypto_keys, row)
                  /\ last' = Result("create_crypto_key", row.key_id, ACTIVE,
                                    usage_purpose, FALSE, OK, Len(crypto_keys) + 1)
                  /\ UNCHANGED <<key_types, now>>
             ELSE /\ last' = Result("create_crypto_key", key_type_id, "-", usage_purpose,
                                    FALSE, PERSISTENCE_FAILURE, 0)
                  /\ UNCHANGED <<key_types, crypto_keys, now>>

(* create_key_version: add the new row and commit; a constraint violation  *)
(* raises SQLAlchemyError, the insert is rolled back and HTTP 500 raised.  *)
create_key_version(key_id, original_key, new_status, justification) ==
    LET row == NewKeyVersion(crypto_keys, original_key, new_status)
    IN  IF CryptoKeyIntegrity(crypto_keys, row)
        THEN /\ Len(crypto_keys) < MaxRows
             /\ crypto_keys' = Append(crypto_keys, row)
             /\ last' = Result("update_key_status", key_id, new_status, justification,
                               FALSE, OK, Len(crypto_keys) + 1)
             /\ UNCHANGED <<key_types, now>>
        ELSE /\ crypto_keys' = rollback(crypto_keys, Append(crypto_keys, row))
             /\ last' = Result("update_key_status", key_id, new_status, justification,
                               FALSE, PERSISTENCE_FAILURE, 0)
             /\ UNCHANGED <<key_types, now>>

update_key_status_JustificationFirst(key_id, new_status, justification) ==
    IF LatestRows(crypto_keys, key_id) = {}
    THEN /\ last' = Result("update_key_status", key_id, new_status, justification,
                           FALSE, NOT_FOUND, 0)
         /\ UNCHANGED <<key_types, crypto_keys, now>>
    ELSE \E o \in LatestRows(crypto_keys, key_id) :
            LET original_key == crypto_keys[o]
            IN  IF new_status # EXPIRED /\ justification = ""
                THEN /\ last' = Result("update_key_status", key_id, new_status,
                                       justification, FALSE,
                                       MISSING_JUSTIFICATION, 0)
                     /\ UNCHANGED <<key_types, crypto_keys, now>>
                ELSE IF ~is_transition_valid(original_key.status, new_status)
                     THEN /\ last' = Result("update_key_status", key_id, new_status,
                                            justification, FALSE, ILLEGAL_TRANSITION, 0)
                          /\ UNCHANGED <<key_types, crypto_keys, now>>
                     ELSE create_key_version(key_id, original_key, new_status,
                                             justification)

update_key_status(key_id, new_status, justification) ==
    IF LatestRows(crypto_keys, key_id) = {}
    THEN /\ last' = Result("update_key_status", key_id, new_status, justification,
                           FALSE, NOT_FOUND, 0)
         /\ UNCHANGED <<key_types, crypto_keys, now>>
    ELSE \E o \in LatestRows(crypto_keys, key_id) :
            LET original_key == crypto_keys[o]
            IN  IF ~is_transition_valid(original_key.status, new_status)
                THEN /\ last' = Result("update_key_status", key_id, new_status,
                                       justification, FALSE, ILLEGAL_TRANSITION, 0)
                     /\ UNCHANGED <<key_types, crypto_keys, now>>
                ELSE IF new_status # EXPIRED /\ justification = ""
                     THEN /\ last' = Result("update_key_status", key_id, new_status,
                                            justification, FALSE,
                                            MISSING_JUSTIFICATION, 0)
                          /\ UNCHANGED <<key_types, crypto_keys, now>>
                     ELSE create_key_version(key_id, original_key, new_status,
                                             justification)

check_and_expire_keys ==
    /\ crypto_keys' = ExpireUpdate(crypto_keys, keys_to_expire(crypto_keys))
    /\ last' = Result("check_and_expire_keys", 0, "-", "", FALSE, OK, 0)
    /\ UNCHANGED <<key_types, now>>

(* The clock datetime.now(timezone.utc) reads. *)
Tick ==
    /\ now < MaxTime
    /\ now' = now + 1
    /\ last' = Result("tick", 0, "-", "", FALSE, OK, 0)
    /\ UNCHANGED <<key_types, crypto_keys>>

(* Every operation runs from its query to its commit without another one  *)
(* in between.                                                             *)
Next ==
    \/ \E name \in Names, token \in Tokens :
          create_key_type(name, token) /\ UNCHANGED <<session, sweeper>>
    \/ \E id \in KeyTypeUlids, force \in BOOLEAN :
          delete_key_type(id, force) /\ UNCHANGED <<session, sweeper>>
    \/ \E kt \in KeyTypeIds, a \in ActivationDates, p \in Purposes :
          create_crypto_key(kt, a, p) /\ UNCHANGED <<session, sweeper>>
    \/ \E id \in KeyUlids, s \in KeyStatus, j \in Justifications :
          update_key_status(id, s, j) /\ UNCHANGED <<session, sweeper>>
    \/ check_and_expire_keys /\ UNCHANGED <<session, sweeper>>
    \/ Tick /\ UNCHANGED <<session, sweeper>>

Spec == Init /\ [][Next]_vars

----------------------------------------------------------------------------
(* Interleaved sessions: update_key_status and check_and_expire_keys each  *)
(* read first and write later, and no lock or version check keeps another  *)
(* session from committing in between.                                     *)

(* update_key_status, lines 265-285: load the latest row and validate. *)
update_key_status_query(u, key_id, new_status, justification) ==
    /\ session[u].pc = "idle"
    /\ IF LatestRows(crypto_keys, key_id) = {}
       THEN /\ last' = Result("update_key_status", key_id, new_status, justification,
                              FALSE, NOT_FOUND, 0)
            /\ UNCHANGED session
       ELSE \E o \in LatestRows(crypto_keys, key_id) :
               LET original_key == crypto_keys[o]
               IN  IF ~is_transition_valid(original_key.status, new_status)
                   THEN /\ last' = Result("update_key_status", key_id, new_status,
                                          justification, FALSE, ILLEGAL_TRANSITION, 0)
                        /\ UNCHANGED session
                   ELSE IF new_status # EXPIRED /\ justification = ""
                        THEN /\ last' = Result("update_key_status", key_id, new_status,
                                               justification, FALSE,
                                               MISSING_JUSTIFICATION, 0)
                             /\ UNCHANGED session
                        ELSE /\ session' = [session EXCEPT ![u] =
                                              [pc |-> "append", key_id |-> key_id,
                                               new_status |-> new_status,
                                               justification |-> justification,
                                               original_key |-> {original_key}]]
                             /\ UNCHANGED last
    /\ UNCHANGED <<key_types, crypto_keys, now, sweeper>>

(* update_key_status, line 288: create_key_version from the loaded row. *)
update_key_status_append(u) ==
    /\ session[u].pc = "append"
    /\ \E original_key \in session[u].original_key :
          create_key_version(session[u].key_id, original_key, session[u].new_status,
                             session[u].justification)
    /\ session' = [session EXCEPT ![u] = IdleSession]
    /\ UNCHANGED sweeper

(* check_and_expire_keys, lines 295-301: load the rows to expire. *)
check_and_expire_keys_query ==
    /\ sweeper.pc = "idle"
    /\ sweeper' = [pc |-> "commit", keys |-> keys_to_expire(crypto_keys)]
    /\ UNCHANGED <<key_types, crypto_keys, now, last, session>>

(* check_and_expire_keys, lines 303-309: update the loaded rows, commit. *)
check_and_expire_keys_commit ==
    /\ sweeper.pc = "commit"
    /\ crypto_keys' = ExpireUpdate(crypto_keys, sweeper.keys)
    /\ last' = Result("check_and_expire_keys", 0, "-", "", FALSE, OK, 0)
    /\ sweeper' = IdleSweeper
    /\ UNCHANGED <<key_types, now, session>>

RaceNames == {"LMK"}

RaceJustifications == {"reason"}

NextRace ==
    \/ \E name \in RaceNames, token \in Tokens :
          create_key_type(name, token) /\ UNCHANGED <<session, sweeper>>
    \/ \E kt \in KeyTypeIds, a \in ActivationDates, p \in Purposes :
          create_crypto_key(kt, a, p) /\ UNCHANGED <<session, sweeper>>
    \/ Tick /\ UNCHANGED <<session, sweeper>>
    \/ \E u \in Users, id \in KeyUlids, s \in KeyStatus, j \in RaceJustifications :
          update_key_status_query(u, id, s, j)
    \/ \E u \in Users : update_key_status_append(u)
    \/ check_and_expire_keys_query
    \/ check_and_expire_keys_commit

SpecRace == Init /\ [][NextRace]_vars

----------------------------------------------------------------------------
(* Issue with the cryptoperiods, activation dates and usage purposes that  *)
(* tell the fields of the issued row apart.                                *)

IssueTokens == {[value |-> 1, unit |-> "d"], [value |-> 1, unit |-> "y"]}

IssueActivationDates == {NoDate, 0}

IssuePurposes == {"purpose", "backup"}

NextIssue ==
    \/ \E name \in RaceNames, token \in IssueTokens :
          create_key_type(name, token) /\ UNCHANGED <<session, sweeper>>
    \/ \E kt \in KeyTypeIds, a \in IssueActivationDates, p \in IssuePurposes :
          create_crypto_key(kt, a, p) /\ UNCHANGED <<session, sweeper>>
    \/ Tick /\ UNCHANGED <<session, sweeper>>

SpecIssue == Init /\ [][NextIssue]_vars

----------------------------------------------------------------------------
(* The cryptoperiod codec of utils.py on its own: each step calls one of   *)
(* the three functions on an input and records the call and what it gave.  *)

MaxTextLen == 3

MaxCodecDays == 800

CodecAlphabet == {"0", "1", "3", "6", "d", "m", "y", "M", "x", " "}

CodecTexts ==
    UNION {[1..n -> CodecAlphabet] : n \in 0..MaxTextLen}
    \cup {<<"3", "6", "0", "d">>, <<"3", "6", "5", "d">>}

CodecDays == 0..MaxCodecDays \cup {10950, MAX_DAYS - 1, MAX_DAYS, MAX_DAYS + 1}

Call(op, text, days, result) ==
    [op |-> op, text |-> text, days |-> days, result |-> result]

(* The input of the call to come. *)
InitCodec ==
    /\ key_types = << >>
    /\ crypto_keys = << >>
    /\ now = 0
    /\ last \in {Call("input", period_str, 0, Returned(0)) : period_str \in CodecTexts}
                \cup {Call("input", << >>, days, Returned(0)) : days \in CodecDays}
    /\ session = [u \in Users |-> IdleSession]
    /\ sweeper = IdleSweeper

call_parse_cryptoperiod ==
    /\ last.op = "input"
    /\ last' = Call("parse_cryptoperiod", last.text, last.days,
                    parse_cryptoperiod_str(last.text))
    /\ UNCHANGED <<key_types, crypto_keys, now, session, sweeper>>

call_format_cryptoperiod ==
    /\ last.op = "input"
    /\ last' = Call("format_cryptoperiod", last.text, last.days,
                    Returned(format_cryptoperiod_str(last.days)))
    /\ UNCHANGED <<key_types, crypto_keys, now, session, sweeper>>

call_validate_cryptoperiod_days ==
    /\ last.op = "input"
    /\ last' = Call("validate_cryptoperiod_days", last.text, last.days,
                    IF validate_cryptoperiod_days(last.days)
                    THEN Returned(0)
                    ELSE Raised(VALUE_ERROR))
    /\ UNCHANGED <<key_types, crypto_keys, now, session, sweeper>>

(* A cryptoperiod string on its way through the application: parsed when  *)
(* the key type is defined, the day count formatted when the key type is  *)
(* shown or a key is issued; and that label parsed again.                  *)
call_format_parse ==
    /\ last.op = "input"
    /\ LET parsed == parse_cryptoperiod_str(last.text)
           label == format_cryptoperiod_str(parsed.value)
       IN  last' = Call("format_parse", last.text, parsed.value,
                        IF parsed.raised # ""
                        THEN parsed
                        ELSE Returned([label |-> label,
                                       parsed |-> parse_cryptoperiod_str(label)]))
    /\ UNCHANGED <<key_types, crypto_keys, now, session, sweeper>>

(* A day count on its way through the application: formatted as the       *)
(* intended lifetime of a key, and that label parsed.                      *)
call_parse_format ==
    /\ last.op = "input"
    /\ LET label == format_cryptoperiod_str(last.days)
       IN  last' = Call("parse_format", label, last.days, parse_cryptoperiod_str(label))
    /\ UNCHANGED <<key_types, crypto_keys, now, session, sweeper>>

NextCodec ==
    \/ call_parse_cryptoperiod
    \/ call_format_cryptoperiod
    \/ call_validate_cryptoperiod_days
    \/ call_format_parse
    \/ call_parse_format

SpecCodec == InitCodec /\ [][NextCodec]_vars

----------------------------------------------------------------------------
(* Define through the request schema: KeyTypeCreate validates the          *)
(* cryptoperiod string before crud.create_key_type is called.  The field   *)
(* pattern and the checks of parse_cryptoperiod_input are modelled; the    *)
(* other fields of the request are not.                                    *)

VALIDATION_ERROR == "ValidationError"

(* Field(pattern=r"^\d+[dmy]$"): digits and one unit letter, nothing else. *)
cryptoperiod_pattern(s) ==
    /\ DigitPrefix(s) >= 1
    /\ Len(s) = DigitPrefix(s) + 1
    /\ s[Len(s)] \in Units

(* KeyTypeBase.parse_cryptoperiod_input: a non-empty cryptoperiod is       *)
(* parsed and its day count checked against the maximum.                   *)
parse_cryptoperiod_input(cryptoperiod) ==
    cryptoperiod # << >>
    => /\ parse_cryptoperiod_str(cryptoperiod).raised = ""
       /\ validate_cryptoperiod_days(parse_cryptoperiod_str(cryptoperiod).value)

(* POST /key-types/ *)
create_key_type_request(name, cryptoperiod) ==
    IF parse_cryptoperiod_input(cryptoperiod) /\ cryptoperiod_pattern(cryptoperiod)
    THEN create_key_type(name, re_match(lower(strip(cryptoperiod))))
    ELSE /\ last' = Result("create_key_type", 0, "-", "", FALSE, VALIDATION_ERROR, 0)
         /\ UNCHANGED <<key_types, crypto_keys, now>>

DefineCryptoperiods ==
    {<<"0", "d">>, <<"1", "d">>, <<"1", "0", "0", "y">>, <<"1", "0", "1", "y">>,
     <<"3", "6", "5", "0", "1", "d">>, <<"1", "x">>, <<"d">>, <<"1">>, << >>}

NextDefine ==
    \/ \E name \in Names, cryptoperiod \in DefineCryptoperiods :
          create_key_type_request(name, cryptoperiod) /\ UNCHANGED <<session, sweeper>>
    \/ \E id \in KeyTypeUlids, force \in BOOLEAN :
          delete_key_type(id, force) /\ UNCHANGED <<session, sweeper>>

SpecDefine == Init /\ [][NextDefine]_vars

----------------------------------------------------------------------------
(* The life of one process (main.py, lifespan).  The store outlives the    *)
(* process: at start it is empty or holds what an earlier run left, here a *)
(* key type with one key issued at time 0.  lifespan runs the sweep once,  *)
(* then the application serves requests.  scheduled_expiration_check is    *)
(* defined inside lifespan and wrapped by repeat_every, whose wrapper      *)
(* starts the timer loop only when it is called; lifespan never calls it,  *)
(* so no step of the process runs the sweep again.                         *)

StartingSweeper == [pc |-> "startup", keys |-> {}]

ServingSweeper == [pc |-> "serving", keys |-> {}]

StoredKeyType ==
    [key_id |-> NewKeyTypeUlid(<< >>), name |-> "LMK",
     cryptoperiod_days |-> parse_cryptoperiod([value |-> 1, unit |-> "d"]),
     status |-> KT_ACTIVE]

StoredCryptoKey ==
    [id |-> 1, derived_from |-> 0, key_id |-> NewKeyUlid(<< >>), key_type_id |-> 1,
     usage_purpose |-> "purpose",
     intended_lifetime |-> format_cryptoperiod(StoredKeyType.cryptoperiod_days),
     status |-> ACTIVE, expiration_date |-> StoredKeyType.cryptoperiod_days,
     activation_date |-> 0, justification |-> "purpose", timestamp |-> 0]

InitLifespan ==
    /\ key_types \in {<< >>, <<StoredKeyType>>}
    /\ crypto_keys \in {<< >>, <<StoredCryptoKey>>}
    /\ crypto_keys # << >> => key_types # << >>
    /\ now \in 0..MaxTime
    /\ last = Result("init", 0, "-", "", FALSE, OK, 0)
    /\ session = [u \in Users |-> IdleSession]
    /\ sweeper = StartingSweeper

(* lifespan, lines 25-27: the sweep at startup, before the first request. *)
lifespan ==
    /\ sweeper = StartingSweeper
    /\ check_and_expire_keys
    /\ sweeper' = ServingSweeper
    /\ UNCHANGED session

NextLifespan ==
    \/ lifespan
    \/ /\ sweeper = ServingSweeper
       /\ \E name \in RaceNames, token \in Tokens : create_key_type(name, token)
       /\ UNCHANGED <<session, sweeper>>
    \/ /\ sweeper = ServingSweeper
       /\ \E id \in KeyTypeUlids, force \in BOOLEAN : delete_key_type(id, force)
       /\ UNCHANGED <<session, sweeper>>
    \/ /\ sweeper = ServingSweeper
       /\ \E kt \in KeyTypeIds, a \in ActivationDates, p \in Purposes :
             create_crypto_key(kt, a, p)
       /\ UNCHANGED <<session, sweeper>>
    \/ /\ sweeper = ServingSweeper
       /\ \E id \in KeyUlids, s \in KeyStatus, j \in RaceJustifications :
             update_key_status(id, s, j)
       /\ UNCHANGED <<session, sweeper>>
    \/ Tick /\ UNCHANGED <<session, sweeper>>

(* The event loop runs the startup of lifespan to its end. *)
SpecLifespan == InitLifespan /\ [][NextLifespan]_vars /\ WF_vars(lifespan)

----------------------------------------------------------------------------
(* A store that can fail: a commit of delete_key_type raises                *)
(* SQLAlchemyError, the handler rolls back and raises HTTP 500.             *)

(* delete_key_type with the store failing at commit `fault`.  The forced   *)
(* branch commits twice (lines 119 and 123), the branch without dependent  *)
(* keys once (line 131).                                                   *)
delete_key_type_store_error(key_type_id, force, fault) ==
    LET result(outcome, row) ==
            [Result("delete_key_type", key_type_id, "-", "", force, outcome, row)
                EXCEPT !.fault = fault]
    IN  IF ActiveKeyTypeIds(key_type_id) = {}
        THEN /\ last' = result(NOT_FOUND, 0)
             /\ UNCHANGED <<key_types, crypto_keys, now>>
        ELSE LET kt == CHOOSE i \in ActiveKeyTypeIds(key_type_id) : TRUE
                 disabled == DisableKeyType(key_types, kt)
             IN  IF associated_keys_count(crypto_keys, kt) > 0
                 THEN IF ~force
                      THEN /\ last' = result(HAS_DEPENDENT_KEYS, 0)
                           /\ UNCHANGED <<key_types, crypto_keys, now>>
                      ELSE CASE fault = FIRST_COMMIT ->
                                  /\ key_types' = rollback(key_types, disabled)
                                  /\ last' = result(PERSISTENCE_FAILURE, 0)
                                  /\ UNCHANGED <<crypto_keys, now>>
                             [] fault = SECOND_COMMIT ->
                                  /\ key_types' = disabled
                                  /\ crypto_keys' =
                                        rollback(crypto_keys, CascadeUpdate(crypto_keys, kt))
                                  /\ last' = result(PERSISTENCE_FAILURE, 0)
                                  /\ UNCHANGED now
                             [] OTHER ->
                                  /\ key_types' = disabled
                                  /\ crypto_keys' = CascadeUpdate(crypto_keys, kt)
                                  /\ last' = result(OK, kt)
                                  /\ UNCHANGED now
                 ELSE IF fault = FIRST_COMMIT
                      THEN /\ key_types' = rollback(key_types, disabled)
                           /\ last' = result(PERSISTENCE_FAILURE, 0)
                           /\ UNCHANGED <<crypto_keys, now>>
                      ELSE /\ key_types' = disabled
                           /\ last' = result(OK, kt)
                           /\ UNCHANGED <<crypto_keys, now>>

NextStoreError ==
    \/ \E name \in RaceNames, token \in Tokens :
          create_key_type(name, token) /\ UNCHANGED <<session, sweeper>>
    \/ \E id \in KeyTypeUlids, force \in BOOLEAN, fault \in StoreFaults :
          delete_key_type_store_error(id, force, fault) /\ UNCHANGED <<session, sweeper>>
    \/ \E kt \in KeyTypeIds, a \in ActivationDates, p \in Purposes :
          create_crypto_key(kt, a, p) /\ UNCHANGED <<session, sweeper>>
    \/ \E id \in KeyUlids, s \in KeyStatus, j \in RaceJustifications :
          update_key_status(id, s, j) /\ UNCHANGED <<session, sweeper>>
    \/ check_and_expire_keys /\ UNCHANGED <<session, sweeper>>
    \/ Tick /\ UNCHANGED <<session, sweeper>>

SpecStoreError == Init /\ [][NextStoreError]_vars

(* The same store with two key types defined side by side. *)
NextDisable ==
    \/ \E name \in Names, token \in Tokens :
          create_key_type(name, token) /\ UNCHANGED <<session, sweeper>>
    \/ \E id \in KeyTypeUlids, force \in BOOLEAN, fault \in StoreFaults :
          delete_key_type_store_error(id, force, fault) /\ UNCHANGED <<session, sweeper>>
    \/ \E kt \in KeyTypeIds, a \in ActivationDates, p \in Purposes :
          create_crypto_key(kt, a, p) /\ UNCHANGED <<session, sweeper>>
    \/ \E id \in KeyUlids, s \in KeyStatus, j \in RaceJustifications :
          update_key_status(id, s, j) /\ UNCHANGED <<session, sweeper>>
    \/ check_and_expire_keys /\ UNCHANGED <<session, sweeper>>
    \/ Tick /\ UNCHANGED <<session, sweeper>>

SpecDisable == Init /\ [][NextDisable]_vars

----------------------------------------------------------------------------
(* Reading one key: GET /keys/{id}.                                         *)

get_crypto_key_Unfiltered(key_id) ==
    /\ IF Ids(crypto_keys) = {}
       THEN last' = Result("get_crypto_key", key_id, "-", "", FALSE, NOT_FOUND, 0)
       ELSE \E i \in Ids(crypto_keys) :
               last' = Result("get_crypto_key", key_id, crypto_keys[i].status, "",
                              FALSE, OK, i)
    /\ UNCHANGED <<key_types, crypto_keys, now>>

(* db.query(CryptoKey).filter(CryptoKey.key_id == key_id).first(): the     *)
(* query states no order, so the store may give any row of the key; no row *)
(* gives None, which the handler turns into HTTP 404.                       *)
get_crypto_key(key_id) ==
    /\ IF RowsOfKey(crypto_keys, key_id) = {}
       THEN last' = Result("get_crypto_key", key_id, "-", "", FALSE, NOT_FOUND, 0)
       ELSE \E i \in RowsOfKey(crypto_keys, key_id) :
               last' = Result("get_crypto_key", key_id, crypto_keys[i].status, "",
                              FALSE, OK, i)
    /\ UNCHANGED <<key_types, crypto_keys, now>>

NextLookup ==
    \/ \E name \in RaceNames, token \in Tokens :
          create_key_type(name, token) /\ UNCHANGED <<session, sweeper>>
    \/ \E id \in KeyTypeUlids, force \in BOOLEAN :
          delete_key_type(id, force) /\ UNCHANGED <<session, sweeper>>
    \/ \E kt \in KeyTypeIds, a \in ActivationDates, p \in Purposes :
          create_crypto_key(kt, a, p) /\ UNCHANGED <<session, sweeper>>
    \/ \E id \in KeyUlids, s \in KeyStatus, j \in RaceJustifications :
          update_key_status(id, s, j) /\ UNCHANGED <<session, sweeper>>
    \/ check_and_expire_keys /\ UNCHANGED <<session, sweeper>>
    \/ \E id \in KeyUlids : get_crypto_key(id) /\ UNCHANGED <<session, sweeper>>
    \/ Tick /\ UNCHANGED <<session, sweeper>>

SpecLookup == Init /\ [][NextLookup]_vars

----------------------------------------------------------------------------
(* The application when every disable is requested with force=true: a key  *)
(* type is Disabled only by a forced disable that committed.                *)

NextForcedDisable ==
    \/ \E name \in RaceNames, token \in Tokens :
          create_key_type(name, token) /\ UNCHANGED <<session, sweeper>>
    \/ \E id \in KeyTypeUlids :
          delete_key_type(id, TRUE) /\ UNCHANGED <<session, sweeper>>
    \/ \E kt \in KeyTypeIds, a \in ActivationDates, p \in Purposes :
          create_crypto_key(kt, a, p) /\ UNCHANGED <<session, sweeper>>
    \/ \E id \in KeyUlids, s \in KeyStatus, j \in RaceJustifications :
          update_key_status(id, s, j) /\ UNCHANGED <<session, sweeper>>
    \/ check_and_expire_keys /\ UNCHANGED <<session, sweeper>>
    \/ Tick /\ UNCHANGED <<session, sweeper>>

SpecForcedDisable == Init /\ [][NextForcedDisable]_vars

----------------------------------------------------------------------------
(* Notions of the design the properties below are stated in *)

(* The correlation ids that name a chain in the store. *)
Chains(rows) == {rows[i].key_id : i \in Ids(rows)}

(* The statuses a transition on the chain may validate against: the status *)
(* of a most recent version.                                               *)
CurrentStatuses(rows, key_id) == {rows[o].status : o \in LatestRows(rows, key_id)}

(* The chains that reference key type kt and whose latest version is not   *)
(* Destroyed.                                                              *)
DependentChains(rows, kt) ==
    {k \in Chains(rows) :
        /\ \E i \in RowsOfKey(rows, k) : rows[i].key_type_id = kt
        /\ \E s \in CurrentStatuses(rows, k) : s # DESTROYED}

(* The key type a disable call names, when it is stored and Active. *)
IsActiveKeyType(rows, kt, key_type_id) ==
    /\ kt \in Ids(rows)
    /\ rows[kt].key_id = key_type_id
    /\ rows[kt].status = KT_ACTIVE

(* Every stored row is still stored and unchanged in the next state. *)
StoredRowsUnchanged ==
    \A i \in Ids(crypto_keys) : i \in Ids(crypto_keys') /\ crypto_keys'[i] = crypto_keys[i]

----------------------------------------------------------------------------
(* C1: a transition with a non-empty justification on a key whose current  *)
(* status is `from` succeeds with a new version of status `to` when         *)
(* (from, to) is in the transition table, and fails with IllegalTransition  *)
(* for every other pair.                                                    *)

C1_Table ==
    {<<ACTIVE, SUSPENDED>>, <<ACTIVE, COMPROMISED>>, <<ACTIVE, EXPIRED>>,
     <<SUSPENDED, ACTIVE>>, <<SUSPENDED, EXPIRED>>, <<SUSPENDED, DESTROYED>>,
     <<COMPROMISED, DESTROYED>>, <<EXPIRED, DESTROYED>>}

C1_TransitionFollowsTable ==
    [][\A id \in KeyUlids :
          (/\ last'.op = "update_key_status"
           /\ last'.id = id
           /\ last'.justification # ""
           /\ LatestRows(crypto_keys, id) # {})
          => \A from \in CurrentStatuses(crypto_keys, id) :
                IF <<from, last'.status>> \in C1_Table
                THEN /\ last'.outcome = OK
                     /\ last'.row \in Ids(crypto_keys')
                     /\ crypto_keys'[last'.row].status = last'.status
                ELSE last'.outcome = ILLEGAL_TRANSITION]_vars

(* C2: no operation changes a field of an already stored CryptoKey version  *)
(* row; a status change is recorded only by appending a row.                *)
C2_StoredVersionsImmutable == [][StoredRowsUnchanged]_vars

(* C3: Destroyed is absorbing.  Once the latest version of a chain is      *)
(* Destroyed, every transition call on it fails with IllegalTransition and  *)
(* appends nothing, whatever the target and the justification, and the      *)
(* chain's current status stays Destroyed; a forced disable of its key type *)
(* still goes through.                                                      *)
C3_DestroyedAbsorbing ==
    [][\A id \in KeyUlids :
          (/\ LatestRows(crypto_keys, id) # {}
           /\ CurrentStatuses(crypto_keys, id) = {DESTROYED})
          => /\ CurrentStatuses(crypto_keys', id) = {DESTROYED}
             /\ (last'.op = "update_key_status" /\ last'.id = id)
                   => /\ last'.outcome = ILLEGAL_TRANSITION
                      /\ crypto_keys' = crypto_keys
             /\ \A kt \in Ids(key_types) :
                   (/\ last'.op = "delete_key_type"
                    /\ last'.force
                    /\ IsActiveKeyType(key_types, kt, last'.id)
                    /\ \E i \in RowsOfKey(crypto_keys, id) : crypto_keys[i].key_type_id = kt)
                   => last'.outcome = OK]_vars

C3_Witness ==
    /\ last.op = "update_key_status"
    /\ last.outcome = ILLEGAL_TRANSITION
    /\ last.justification # ""
    /\ last.status = ACTIVE
    /\ LatestRows(crypto_keys, last.id) # {}
    /\ CurrentStatuses(crypto_keys, last.id) = {DESTROYED}

(* C4: a transition that passes validation appends exactly one version to   *)
(* the chain it names: the new row has the chain's correlation id and a new  *)
(* primary key, and the history of the chain afterwards is its previous      *)
(* history followed by that row.                                             *)
C4_TransitionAppendsOneVersion ==
    [][\A id \in KeyUlids :
          (/\ last'.op = "update_key_status"
           /\ last'.id = id
           /\ last'.justification # ""
           /\ \E from \in CurrentStatuses(crypto_keys, id) :
                 <<from, last'.status>> \in C1_Table)
          => /\ Len(crypto_keys') = Len(crypto_keys) + 1
             /\ StoredRowsUnchanged
             /\ crypto_keys'[Len(crypto_keys')].key_id = id
             /\ get_key_history(crypto_keys', id) =
                   {Append(h, Len(crypto_keys')) : h \in get_key_history(crypto_keys, id)}]_vars

C7_ForcedDisableAppendsDestroyed ==
    [][\A kt \in Ids(key_types) :
          (/\ last'.op = "delete_key_type"
           /\ last'.force
           /\ IsActiveKeyType(key_types, kt, last'.id)
           /\ DependentChains(crypto_keys, kt) # {})
          => /\ key_types'[kt].status = KT_DISABLED
             /\ \A k \in DependentChains(crypto_keys, kt) :
                   CurrentStatuses(crypto_keys', k) = {DESTROYED}
             /\ StoredRowsUnchanged
             /\ Len(crypto_keys') =
                   Len(crypto_keys) + Cardinality(DependentChains(crypto_keys, kt))]_vars

(* C8: disable with force = false on an Active key type that has at least   *)
(* one dependent chain fails with HasDependentKeys and changes nothing.     *)
C8_UnforcedDisableBlocked ==
    [][\A kt \in Ids(key_types) :
          (/\ last'.op = "delete_key_type"
           /\ ~last'.force
           /\ IsActiveKeyType(key_types, kt, last'.id)
           /\ DependentChains(crypto_keys, kt) # {})
          => /\ last'.outcome = HAS_DEPENDENT_KEYS
             /\ key_types' = key_types
             /\ crypto_keys' = crypto_keys]_vars

C8_Witness ==
    /\ last.op = "delete_key_type"
    /\ ~last.force
    /\ last.outcome = HAS_DEPENDENT_KEYS
    /\ \E kt \in Ids(key_types) :
          /\ IsActiveKeyType(key_types, kt, last.id)
          /\ \E k \in DependentChains(crypto_keys, kt) :
                CurrentStatuses(crypto_keys, k) = {EXPIRED}

(* C9: disable on an Active key type with no dependent chain sets it to     *)
(* Disabled for either value of force, and adds or changes no CryptoKey     *)
(* version.                                                                 *)
C9_DisableWithoutDependents ==
    [][\A kt \in Ids(key_types) :
          (/\ last'.op = "delete_key_type"
           /\ IsActiveKeyType(key_types, kt, last'.id)
           /\ DependentChains(crypto_keys, kt) = {})
          => /\ last'.outcome = OK
             /\ key_types'[kt].status = KT_DISABLED
             /\ \A o \in Ids(key_types) : o # kt => key_types'[o] = key_types[o]
             /\ crypto_keys' = crypto_keys]_vars

C9_Witness ==
    /\ last.op = "delete_key_type"
    /\ last.force
    /\ last.outcome = OK
    /\ Len(crypto_keys) > 0
    /\ \E kt \in Ids(key_types) :
          /\ key_types[kt].key_id = last.id
          /\ key_types[kt].status = KT_DISABLED
          /\ \A i \in Ids(crypto_keys) :
                crypto_keys[i].key_type_id # kt /\ crypto_keys[i].status # DESTROYED

(* C11: disable on a correlation id that names no key type, or that names a *)
(* key type that is already Disabled, fails with NotFound for either value  *)
(* of force and changes no key type and no CryptoKey version; so a second   *)
(* disable of the same key type always fails.                               *)
C11_DisableUnknownOrDisabled ==
    [][(/\ last'.op = "delete_key_type"
        /\ \A kt \in Ids(key_types) : ~IsActiveKeyType(key_types, kt, last'.id))
       => /\ last'.outcome = NOT_FOUND
          /\ key_types' = key_types
          /\ crypto_keys' = crypto_keys]_vars

(* A forced second disable of a Disabled key type that still has a live    *)
(* key has ended NotFound.                                                  *)
C11_Witness ==
    /\ last.op = "delete_key_type"
    /\ last.force
    /\ last.outcome = NOT_FOUND
    /\ \E kt \in Ids(key_types) :
          /\ key_types[kt].key_id = last.id
          /\ key_types[kt].status = KT_DISABLED
          /\ \E i \in Ids(crypto_keys) :
                crypto_keys[i].key_type_id = kt /\ crypto_keys[i].status = ACTIVE

(* C12: once the status of a key type is Disabled it is Disabled in every   *)
(* later state: no operation sets it back to Active.                        *)
C12_DisabledIsPermanent ==
    [][\A kt \in Ids(key_types) :
          key_types[kt].status = KT_DISABLED
          => /\ kt \in Ids(key_types')
             /\ key_types'[kt].status = KT_DISABLED]_vars

(* After one key type was disabled, a second one has been disabled by a    *)
(* forced disable that destroyed its key.                                   *)
C12_Witness ==
    /\ last.op = "delete_key_type"
    /\ last.force
    /\ last.outcome = OK
    /\ \E kt, other \in Ids(key_types) :
          /\ kt # other
          /\ key_types[kt].key_id = last.id
          /\ key_types[other].status = KT_DISABLED
          /\ \E i \in Ids(crypto_keys) :
                crypto_keys[i].key_type_id = kt /\ crypto_keys[i].status = DESTROYED

(* C13: in a forced disable of an Active key type with dependent chains,    *)
(* when the second step (destroying the dependent keys) fails after the     *)
(* first step has committed, the key type stays Disabled, no CryptoKey      *)
(* version is changed, and the call ends with the failure.                  *)
C13_SecondStepFailure ==
    [][\A kt \in Ids(key_types) :
          (/\ last'.op = "delete_key_type"
           /\ last'.force
           /\ last'.fault = SECOND_COMMIT
           /\ IsActiveKeyType(key_types, kt, last'.id)
           /\ DependentChains(crypto_keys, kt) # {})
          => /\ key_types'[kt].status = KT_DISABLED
             /\ crypto_keys' = crypto_keys
             /\ last'.outcome = PERSISTENCE_FAILURE]_vars

(* The forced disable has failed at its second commit and has left the     *)
(* key type Disabled with a live key.                                       *)
C13_Witness ==
    /\ last.op = "delete_key_type"
    /\ last.force
    /\ last.fault = SECOND_COMMIT
    /\ last.outcome = PERSISTENCE_FAILURE
    /\ \E kt \in Ids(key_types) :
          /\ key_types[kt].key_id = last.id
          /\ key_types[kt].status = KT_DISABLED
          /\ \E i \in Ids(crypto_keys) :
                crypto_keys[i].key_type_id = kt /\ crypto_keys[i].status = EXPIRED

(* The key type reference a create_crypto_key step was called with. *)
IssueKeyTypeRef ==
    IF last'.outcome = OK THEN crypto_keys'[last'.row].key_type_id ELSE last'.id

(* The error the design names for an issue against a Disabled key type. *)
KEY_TYPE_DISABLED == "KeyTypeDisabled"

(* C14: issue against a reference that names no key type fails (unknown     *)
(* key type), issue against a Disabled key type fails with KeyTypeDisabled; *)
(* in both cases no CryptoKey row is created.                               *)
C14_IssueRequiresActiveKeyType ==
    [][last'.op = "create_crypto_key"
       => /\ IssueKeyTypeRef \notin Ids(key_types)
                => last'.outcome = NOT_FOUND /\ crypto_keys' = crypto_keys
          /\ (/\ IssueKeyTypeRef \in Ids(key_types)
              /\ key_types[IssueKeyTypeRef].status = KT_DISABLED)
                => last'.outcome = KEY_TYPE_DISABLED /\ crypto_keys' = crypto_keys]_vars

(* C15: a successful issue against a key type with cryptoperiod D days and  *)
(* activation date T (the time of the call when none is given) creates      *)
(* exactly one version, the first of a new chain, with status Active,       *)
(* expiration date T + D, intended lifetime format(D) ("1y" for D = 365)    *)
(* and justification equal to the supplied usage purpose.                   *)
C15_IssueCreatesFirstVersion ==
    [][\A kt \in KeyTypeIds, a \in IssueActivationDates, p \in IssuePurposes :
          (create_crypto_key(kt, a, p) /\ last'.outcome = OK)
          => LET row == crypto_keys'[Len(crypto_keys')]
                 D == key_types[kt].cryptoperiod_days
                 T == IF a = NoDate THEN now ELSE a
             IN  /\ Len(crypto_keys') = Len(crypto_keys) + 1
                 /\ StoredRowsUnchanged
                 /\ row.key_id \notin Chains(crypto_keys)
                 /\ get_key_history(crypto_keys', row.key_id) = {<<Len(crypto_keys')>>}
                 /\ row.key_type_id = kt
                 /\ row.status = ACTIVE
                 /\ row.activation_date = T
                 /\ row.expiration_date = T + D
                 /\ row.intended_lifetime = format_cryptoperiod(D)
                 /\ D = 365 => row.intended_lifetime = [value |-> 1, unit |-> "y"]
                 /\ row.usage_purpose = p
                 /\ row.justification = p]_vars

(* A key has been issued against a key type of 365 days with an activation *)
(* date earlier than the time of the call.                                  *)
C15_Witness ==
    /\ last.op = "create_crypto_key"
    /\ last.outcome = OK
    /\ last.justification = "backup"
    /\ now = 1
    /\ LET row == crypto_keys[last.row]
       IN  /\ key_types[row.key_type_id].cryptoperiod_days = 365
           /\ row.activation_date = 0
           /\ row.timestamp = 1
           /\ row.expiration_date = 365
           /\ row.intended_lifetime = [value |-> 1, unit |-> "y"]

(* C16: a transition with an empty justification to a target other than     *)
(* Expired fails and appends no version, with MissingJustification when the *)
(* status change itself is legal; a legal transition into Expired succeeds  *)
(* with an empty justification and appends the Expired version.             *)
C16_JustificationRequiredExceptExpired ==
    [][\A id \in KeyUlids :
          (/\ last'.op = "update_key_status"
           /\ last'.id = id
           /\ last'.justification = ""
           /\ LatestRows(crypto_keys, id) # {})
          => \A from \in CurrentStatuses(crypto_keys, id) :
                /\ last'.status # EXPIRED
                      => /\ last'.outcome # OK
                         /\ crypto_keys' = crypto_keys
                         /\ <<from, last'.status>> \in C1_Table
                               => last'.outcome = MISSING_JUSTIFICATION
                /\ (last'.status = EXPIRED /\ <<from, EXPIRED>> \in C1_Table)
                      => /\ last'.outcome = OK
                         /\ Len(crypto_keys') = Len(crypto_keys) + 1
                         /\ crypto_keys'[Len(crypto_keys')].status = EXPIRED]_vars

(* C17: a transition that passes validation with a supplied justification   *)
(* succeeds, and the version it appends records that justification (not     *)
(* the previous version's justification and not an empty value).            *)
C17_VersionRecordsJustification ==
    [][\A id \in KeyUlids :
          (/\ last'.op = "update_key_status"
           /\ last'.id = id
           /\ last'.justification # ""
           /\ \E from \in CurrentStatuses(crypto_keys, id) :
                 <<from, last'.status>> \in C1_Table)
          => /\ last'.outcome = OK
             /\ last'.row \in Ids(crypto_keys') \ Ids(crypto_keys)
             /\ crypto_keys'[last'.row].justification = last'.justification]_vars

(* The fields of a version that are fixed at issue. *)
StaticFields(row) ==
    [key_type_id       |-> row.key_type_id,
     activation_date   |-> row.activation_date,
     expiration_date   |-> row.expiration_date,
     intended_lifetime |-> row.intended_lifetime,
     usage_purpose     |-> row.usage_purpose]

(* C18: every version of a chain carries the key type reference, activation *)
(* date, expiration date, intended lifetime and static fields of the first  *)
(* version: a transition, sweep or cascade changes nothing but status,      *)
(* justification and creation timestamp, whether it writes the stored row   *)
(* or adds a row copied from it, and never recomputes the expiration date.  *)
C18_StaticFieldsCarriedForward ==
    /\ [][/\ \A i \in Ids(crypto_keys) :
                /\ i \in Ids(crypto_keys')
                /\ crypto_keys'[i].key_id = crypto_keys[i].key_id
                /\ StaticFields(crypto_keys'[i]) = StaticFields(crypto_keys[i])
          /\ \A i \in Ids(crypto_keys') \ Ids(crypto_keys) :
                crypto_keys'[i].derived_from # 0
                => /\ crypto_keys'[i].derived_from \in Ids(crypto_keys)
                   /\ StaticFields(crypto_keys'[i]) =
                         StaticFields(crypto_keys[crypto_keys'[i].derived_from])]_vars
    /\ [](/\ \A i, j \in Ids(crypto_keys) :
                crypto_keys[i].key_id = crypto_keys[j].key_id
                => StaticFields(crypto_keys[i]) = StaticFields(crypto_keys[j])
          /\ \A o \in Ids(crypto_keys), s \in KeyStatus :
                StaticFields(NewKeyVersion(crypto_keys, crypto_keys[o], s)) =
                   StaticFields(crypto_keys[o]))

(* A key that the sweep expired and a forced disable then destroyed still  *)
(* has the expiration date computed at issue.                               *)
C18_Witness ==
    /\ last.op = "delete_key_type"
    /\ last.force
    /\ last.outcome = OK
    /\ \E i \in Ids(crypto_keys) :
          /\ crypto_keys[i].key_type_id = last.row
          /\ crypto_keys[i].status = DESTROYED
          /\ crypto_keys[i].justification = EXPIRED_JUSTIFICATION
          /\ crypto_keys[i].expiration_date =
                crypto_keys[i].activation_date
                + key_types[crypto_keys[i].key_type_id].cryptoperiod_days
          /\ crypto_keys[i].expiration_date <= crypto_keys[i].timestamp + 1
          /\ crypto_keys[i].expiration_date <= now

(* The expiration date of chain key_id has been reached. *)
ExpirationReached(rows, key_id) ==
    \E o \in LatestRows(rows, key_id) : rows[o].expiration_date <= now

(* C19: a sweep of a key whose current status is Active and whose           *)
(* expiration date is at or before the current time produces exactly one    *)
(* new version of that key, with status Expired and the fixed system        *)
(* justification; a key whose expiration date is in the future is left      *)
(* untouched.                                                               *)
C19_SweepAppendsExpiredVersion ==
    [][last'.op = "check_and_expire_keys"
       => \A id \in Chains(crypto_keys) :
             CurrentStatuses(crypto_keys, id) = {ACTIVE}
             => IF ExpirationReached(crypto_keys, id)
                THEN /\ \A i \in RowsOfKey(crypto_keys, id) :
                           crypto_keys'[i] = crypto_keys[i]
                     /\ \E n \in Ids(crypto_keys') \ Ids(crypto_keys) :
                           /\ RowsOfKey(crypto_keys', id) = RowsOfKey(crypto_keys, id) \cup {n}
                           /\ crypto_keys'[n].status = EXPIRED
                           /\ crypto_keys'[n].justification = EXPIRED_JUSTIFICATION
                ELSE /\ RowsOfKey(crypto_keys', id) = RowsOfKey(crypto_keys, id)
                     /\ \A i \in RowsOfKey(crypto_keys, id) :
                           crypto_keys'[i] = crypto_keys[i]]_vars

(* The chain's latest version is Active or Suspended and its expiration    *)
(* date has been reached.                                                  *)
DueForExpiration(rows, key_id) ==
    \E o \in LatestRows(rows, key_id) :
        rows[o].status \in {ACTIVE, SUSPENDED} /\ rows[o].expiration_date <= now

(* C20: the sweep affects only the chains whose latest version is Active or *)
(* Suspended with the expiration date reached.  Every other chain, so every *)
(* chain whose current status is Compromised, Expired or Destroyed, keeps   *)
(* all its version rows as they were and gets no new row, and no key type   *)
(* is changed.                                                              *)
C20_SweepFrame ==
    [][last'.op = "check_and_expire_keys"
       => /\ key_types' = key_types
          /\ Chains(crypto_keys') = Chains(crypto_keys)
          /\ \A id \in Chains(crypto_keys) :
                (\/ ~DueForExpiration(crypto_keys, id)
                 \/ CurrentStatuses(crypto_keys, id) \cap {COMPROMISED, EXPIRED, DESTROYED} # {})
                => /\ RowsOfKey(crypto_keys', id) = RowsOfKey(crypto_keys, id)
                   /\ \A i \in RowsOfKey(crypto_keys, id) :
                         crypto_keys'[i] = crypto_keys[i]]_vars

(* A sweep has run over a Destroyed key whose expiration date was reached  *)
(* and that still has the justification of its issue, next to a key it     *)
(* expired.                                                                 *)
C20_Witness ==
    /\ last.op = "check_and_expire_keys"
    /\ \E i, j \in Ids(crypto_keys) :
          /\ crypto_keys[i].status = DESTROYED
          /\ crypto_keys[i].expiration_date <= now
          /\ crypto_keys[i].justification = crypto_keys[i].usage_purpose
          /\ crypto_keys[j].status = EXPIRED
          /\ crypto_keys[j].justification = EXPIRED_JUSTIFICATION

(* C21: the sweep runs at process start and again and again afterwards, so  *)
(* a key whose current status is Active or Suspended and whose expiration   *)
(* date has passed eventually has a current status that is neither: the     *)
(* sweep expires it unless another transition changed its status first.     *)
C21_DueKeyEventuallyExpired ==
    \A id \in KeyUlids :
        DueForExpiration(crypto_keys, id)
        ~> (/\ LatestRows(crypto_keys, id) # {}
            /\ CurrentStatuses(crypto_keys, id) \cap {ACTIVE, SUSPENDED} = {})

(* C22: a transition call that fails, with NotFound, IllegalTransition or   *)
(* MissingJustification, or with a persistence failure while appending,     *)
(* leaves the store as it was: no version is appended and no CryptoKey row  *)
(* and no key type is changed.                                              *)
C22_FailedTransitionChangesNothing ==
    [][(/\ last'.op = "update_key_status"
        /\ last'.outcome \in {NOT_FOUND, ILLEGAL_TRANSITION, MISSING_JUSTIFICATION,
                              PERSISTENCE_FAILURE})
       => /\ crypto_keys' = crypto_keys
          /\ key_types' = key_types]_vars

(* The insert of a validated transition was rejected and rolled back: the  *)
(* key is still Active in its only row.                                     *)
C22_Witness ==
    /\ last.op = "update_key_status"
    /\ last.outcome = PERSISTENCE_FAILURE
    /\ last.status = COMPROMISED
    /\ last.justification # ""
    /\ RowsOfKey(crypto_keys, last.id) # {}
    /\ \A i \in RowsOfKey(crypto_keys, last.id) : crypto_keys[i].status = ACTIVE

(* The error the design names for a define with a stored name. *)
DUPLICATE_NAME == "DuplicateName"

(* C23: define with the name of a stored key type, Active or Disabled,      *)
(* fails with DuplicateName, a condition distinct from PersistenceFailure,  *)
(* and stores nothing; so no two key types have the same name.              *)
C23_DuplicateNameRejected ==
    /\ [][\A name \in Names, token \in Tokens :
             (/\ create_key_type(name, token)
              /\ \E i \in Ids(key_types) : key_types[i].name = name)
             => /\ last'.outcome = DUPLICATE_NAME
                /\ key_types' = key_types]_vars
    /\ [](\A i, j \in Ids(key_types) :
             key_types[i].name = key_types[j].name => i = j)

(* A cryptoperiod string the design accepts: digits and one unit letter,   *)
(* with a day count of at least 1 and at most 36,500.                      *)
ValidCryptoperiod(s) ==
    /\ cryptoperiod_pattern(s)
    /\ parse_cryptoperiod_str(s).value >= 1
    /\ parse_cryptoperiod_str(s).value <= 36500

C25_NothingRemoved ==
    [][/\ Len(crypto_keys') >= Len(crypto_keys)
       /\ \A i \in Ids(crypto_keys) :
             /\ crypto_keys'[i].id = crypto_keys[i].id
             /\ crypto_keys'[i].key_id = crypto_keys[i].key_id
       /\ Len(key_types') >= Len(key_types)
       /\ \A i \in Ids(key_types) :
             /\ key_types'[i].key_id = key_types[i].key_id
             /\ key_types'[i].name = key_types[i].name]_vars

(* A sweep has run with a Disabled key type and its Destroyed key stored   *)
(* next to an Active key type and its Expired key.                          *)
C25_Witness ==
    /\ last.op = "check_and_expire_keys"
    /\ \E kt, other \in Ids(key_types) :
          /\ key_types[kt].status = KT_DISABLED
          /\ key_types[other].status = KT_ACTIVE
          /\ \E i, j \in Ids(crypto_keys) :
                /\ crypto_keys[i].key_type_id = kt
                /\ crypto_keys[i].status = DESTROYED
                /\ crypto_keys[j].key_type_id = other
                /\ crypto_keys[j].status = EXPIRED

(* The day count the design gives a token of digits and one unit letter. *)
TokenDays(s) ==
    LET n == int(SubSeq(s, 1, Len(s) - 1))
    IN  CASE s[Len(s)] = "d" -> n
          [] s[Len(s)] = "m" -> 30 * n
          [] s[Len(s)] = "y" -> 365 * n

(* C26: parse returns n for "<n>d", 30*n for "<n>m" and 365*n for "<n>y",   *)
(* the unit letter in either case and surrounding whitespace ignored, so    *)
(* parse("30d") = 30, parse("6m") = 180 and parse("1y") = 365; for every    *)
(* other string (empty, no digits, no unit, unknown unit, characters after  *)
(* the unit) it fails with the format error.                                *)
C26_ParseCryptoperiod ==
    last.op = "parse_cryptoperiod"
    => LET s == lower(strip(last.text))
       IN  /\ IF cryptoperiod_pattern(s)
              THEN last.result = Returned(TokenDays(s))
              ELSE last.result = Raised(VALUE_ERROR)
           /\ last.text = <<"3", "0", "d">> => last.result = Returned(30)
           /\ last.text = <<"6", "m">> => last.result = Returned(180)
           /\ last.text = <<"1", "y">> => last.result = Returned(365)

(* A string of digits with no leading zero, followed by the unit letter,  *)
(* whose number is n.                                                      *)
IsNumberAndUnit(s, n, unit) ==
    /\ Len(s) >= 2
    /\ s[Len(s)] = unit
    /\ DigitPrefix(s) = Len(s) - 1
    /\ (s[1] = "0" => Len(s) = 2)
    /\ int(SubSeq(s, 1, Len(s) - 1)) = n

(* C27: format chooses the largest unit that divides evenly: "<days/365>y"  *)
(* for a positive multiple of 365, otherwise "<days/30>m" for a positive    *)
(* multiple of 30, otherwise "<days>d"; so format(365) = "1y", format(180)  *)
(* = "6m", format(40) = "40d", format(360) = "12m", and 10950, a multiple   *)
(* of both, is given in years.                                              *)
C27_FormatCryptoperiod ==
    last.op = "format_cryptoperiod"
    => LET days == last.days
           s == last.result.value
       IN  /\ last.result.raised = ""
           /\ IF days > 0 /\ days % 365 = 0
              THEN IsNumberAndUnit(s, days \div 365, "y")
              ELSE IF days > 0 /\ days % 30 = 0
                   THEN IsNumberAndUnit(s, days \div 30, "m")
                   ELSE IsNumberAndUnit(s, days, "d")
           /\ days = 365 => s = <<"1", "y">>
           /\ days = 180 => s = <<"6", "m">>
           /\ days = 40 => s = <<"4", "0", "d">>
           /\ days = 360 => s = <<"1", "2", "m">>
           /\ days = 10950 => s = <<"3", "0", "y">>

C27_Witness ==
    /\ last.op = "format_cryptoperiod"
    /\ last.days = 10950
    /\ last.result = Returned(<<"3", "0", "y">>)

(* C28: the codec is not a round trip on tokens: for some valid tokens t,   *)
(* such as "360d" (formatted "12m") and "365d" ("1y"), format(parse(t)) is  *)
(* another string than t; but format(parse(t)) always parses to the day     *)
(* count of t.                                                              *)
C28_FormatParseKeepsDays ==
    (last.op = "format_parse" /\ last.result.raised = "")
    => /\ last.result.value.parsed = Returned(last.days)
       /\ last.text = <<"3", "6", "0", "d">>
             => last.result.value.label = <<"1", "2", "m">>
       /\ last.text = <<"3", "6", "5", "d">>
             => last.result.value.label = <<"1", "y">>

(* A valid token that does not come back: "360d" is formatted as "12m",   *)
(* which parses to 360 days again.                                          *)
C28_Witness ==
    /\ last.op = "format_parse"
    /\ last.text = <<"3", "6", "0", "d">>
    /\ cryptoperiod_pattern(last.text)
    /\ last.days = 360
    /\ last.result.raised = ""
    /\ last.result.value.label # last.text
    /\ last.result.value.parsed = Returned(360)

(* C29: the maximum check fails exactly when the day count is greater than *)
(* 36,500 and succeeds for every count up to and including 36,500.         *)
C29_ValidateMaximum ==
    last.op = "validate_cryptoperiod_days"
    => /\ (last.result.raised = VALUE_ERROR) <=> (last.days > 36500)
       /\ (last.result = Returned(0)) <=> (last.days <= 36500)

(* The ceiling itself has been checked and accepted.                       *)
C29_Witness ==
    /\ last.op = "validate_cryptoperiod_days"
    /\ last.days = 36500
    /\ last.result.raised = ""

C31_ChainsFollowTransitionTable ==
    \A id \in Chains(crypto_keys) :
        \A h \in get_key_history(crypto_keys, id) :
            /\ crypto_keys[h[1]].status = ACTIVE
            /\ \A a \in 2..Len(h) :
                  \/ crypto_keys[h[a]].status
                        \in ALLOWED_TRANSITIONS[crypto_keys[h[a - 1]].status]
                  \/ crypto_keys[h[a]].status = DESTROYED

(* C32: once a forced disable of a key type has completed, every chain      *)
(* that references the key type has a Destroyed latest version in every     *)
(* later state: no later issue creates a live chain against it, and no      *)
(* later transition or sweep gives one of its chains another current        *)
(* status. (Under SpecForcedDisable a Disabled key type is one whose forced *)
(* disable has committed its second step, and rows are set to Destroyed     *)
(* only by the first step, the cascade.)                                    *)
C32_DisabledKeyTypeHasOnlyDestroyedChains ==
    \A kt \in Ids(key_types) :
        (/\ key_types[kt].status = KT_DISABLED
         /\ \E i \in Ids(crypto_keys) :
               crypto_keys[i].key_type_id = kt /\ crypto_keys[i].status = DESTROYED)
        => \A id \in Chains(crypto_keys) :
              (\E i \in RowsOfKey(crypto_keys, id) : crypto_keys[i].key_type_id = kt)
              => CurrentStatuses(crypto_keys, id) = {DESTROYED}

(* The statuses from which the transition table leads neither to Active    *)
(* nor to Suspended.                                                        *)
NoReturnStatuses == {COMPROMISED, EXPIRED, DESTROYED}

(* C33: once a key's current status is Compromised, Expired or Destroyed,   *)
(* no step makes it Active or Suspended again: a transition, a sweep or a   *)
(* cascade leaves it among those three, and a requested transition of such  *)
(* a key to Active or Suspended is refused as illegal; a key whose status   *)
(* becomes Active in a step was Suspended before it.                        *)
C33_NoReturnToLive ==
    [][\A id \in Chains(crypto_keys) :
          /\ CurrentStatuses(crypto_keys, id) \cap NoReturnStatuses # {}
                => CurrentStatuses(crypto_keys', id) \cap {ACTIVE, SUSPENDED} = {}
          /\ (/\ ACTIVE \in CurrentStatuses(crypto_keys', id)
              /\ ACTIVE \notin CurrentStatuses(crypto_keys, id))
                => CurrentStatuses(crypto_keys, id) = {SUSPENDED}
          /\ \A s \in {ACTIVE, SUSPENDED}, j \in Justifications :
                (/\ update_key_status(id, s, j)
                 /\ CurrentStatuses(crypto_keys, id) \cap NoReturnStatuses # {})
                => last'.outcome = ILLEGAL_TRANSITION]_vars

(* A key the sweep has set to Expired was asked, with a justification, to   *)
(* become Active again; the request was refused and the key is Expired.     *)
C33_Witness ==
    /\ last.op = "update_key_status"
    /\ last.status = ACTIVE
    /\ last.justification = "reason"
    /\ last.outcome = ILLEGAL_TRANSITION
    /\ CurrentStatuses(crypto_keys, last.id) = {EXPIRED}

(* C34: a disable of one key type, forced or not, successful or failed,     *)
(* changes neither another key type nor any version of a chain that         *)
(* references another key type.                                             *)
C34_DisableFrame ==
    [][last'.op = "delete_key_type"
       => /\ Len(key_types') = Len(key_types)
          /\ \A k \in Ids(key_types) :
                key_types[k].key_id # last'.id => key_types'[k] = key_types[k]
          /\ Len(crypto_keys') = Len(crypto_keys)
          /\ \A i \in Ids(crypto_keys) :
                key_types[crypto_keys[i].key_type_id].key_id # last'.id
                => crypto_keys'[i] = crypto_keys[i]]_vars

(* A forced disable has destroyed the key of one key type while the other  *)
(* key type is Active and its key is Active.                                *)
C34_Witness ==
    /\ last.op = "delete_key_type"
    /\ last.force
    /\ last.outcome = OK
    /\ \E kt, other \in Ids(key_types) :
          /\ key_types[kt].key_id = last.id
          /\ key_types[kt].status = KT_DISABLED
          /\ key_types[other].status = KT_ACTIVE
          /\ \E i, j \in Ids(crypto_keys) :
                /\ crypto_keys[i].key_type_id = kt
                /\ crypto_keys[i].status = DESTROYED
                /\ crypto_keys[j].key_type_id = other
                /\ crypto_keys[j].status = ACTIVE

(* C35: a transition checks existence of the key first, then legality of    *)
(* the status change, then presence of the justification: an unknown        *)
(* correlation id fails with NotFound whatever the target status and the    *)
(* justification are, an illegal status change fails with IllegalTransition *)
(* also when the justification is empty, and MissingJustification is the    *)
(* outcome only of a legal change; none of these changes the store.         *)
C35_ValidationOrder ==
    [][\A id \in KeyUlids :
          (last'.op = "update_key_status" /\ last'.id = id)
          => /\ LatestRows(crypto_keys, id) = {}
                   => last'.outcome = NOT_FOUND /\ crypto_keys' = crypto_keys
             /\ \A from \in CurrentStatuses(crypto_keys, id) :
                   /\ <<from, last'.status>> \notin C1_Table
                         => /\ last'.outcome = ILLEGAL_TRANSITION
                            /\ crypto_keys' = crypto_keys
                   /\ (/\ <<from, last'.status>> \in C1_Table
                       /\ last'.status # EXPIRED
                       /\ last'.justification = "")
                         => /\ last'.outcome = MISSING_JUSTIFICATION
                            /\ crypto_keys' = crypto_keys]_vars

(* An Active key was asked to become Destroyed, an illegal change, with an *)
(* empty justification, and the request failed as an illegal transition.    *)
C35_Witness ==
    /\ last.op = "update_key_status"
    /\ last.status = DESTROYED
    /\ last.justification = ""
    /\ last.outcome = ILLEGAL_TRANSITION
    /\ CurrentStatuses(crypto_keys, last.id) = {ACTIVE}

(* The store after a sweep of `rows` at the current time. *)
Swept(rows) == ExpireUpdate(rows, keys_to_expire(rows))

(* C36: a sweep run directly after a sweep, with the clock unchanged,       *)
(* leaves the store as the first run left it: it appends no version and     *)
(* changes no status or justification.  From every reachable store,         *)
(* sweeping twice gives what sweeping once gives.                           *)
C36_SweepIdempotent ==
    /\ [][(last.op = "check_and_expire_keys" /\ check_and_expire_keys)
          => UNCHANGED <<key_types, crypto_keys, now>>]_vars
    /\ [](Swept(Swept(crypto_keys)) = Swept(crypto_keys))

(* A sweep has just set a due key to Expired with the fixed justification,  *)
(* next to a key it left alone; a second sweep would start from here.       *)
C36_Witness ==
    /\ last.op = "check_and_expire_keys"
    /\ \E i, j \in Ids(crypto_keys) :
          /\ crypto_keys[i].status = EXPIRED
          /\ crypto_keys[i].justification = EXPIRED_JUSTIFICATION
          /\ crypto_keys[i].expiration_date <= now
          /\ crypto_keys[j].status = DESTROYED
    /\ keys_to_expire(crypto_keys) = {}

(* C37: for every day count d >= 0 of the range, parse(format(d)) = d:      *)
(* formatting a day count and parsing the label gives the day count back.   *)
C37_ParseFormatIsIdentity ==
    last.op = "parse_format" => last.result = Returned(last.days)

(* 360 days were formatted as "12m" and parsed back to 360. *)
C37_Witness ==
    /\ last.op = "parse_format"
    /\ last.days = 360
    /\ last.text = <<"1", "2", "m">>
    /\ last.result = Returned(360)

====
